---- MODULE Spec2Model ----
(***************************************************************************)
(* Model of the report cache (db/repositories/report_repository.py), the   *)
(* report orchestrator (services/llm_service.py), the news store           *)
(* (db/repositories/stock_repository.py), the batch job                    *)
(* (jobs/stock_collector.py), the chunker configuration                    *)
(* (collectors/news_api.py) and the service singleton (dependencies.py)    *)
(* of stock-bot.                                                           *)
(*                                                                         *)
(* Time is counted in half days.  A date is a day number.  The server      *)
(* clock and the business clock (utils/common.py BUSINESS_TIMEZONE) may    *)
(* differ by half a day, so the two dates differ during half of each day   *)
(* when the server does not run in the business timezone.                  *)
(***************************************************************************)
EXTENDS Integers, Sequences, FiniteSets, TLC

\* ---------------------------------------------------------------- bounds
NCallers == 2
MaxNow == 2
MaxCalls == 2

Callers == 1..NCallers
Tickers == {"AAPL", "TSLA"}
Bodies == {"r1", "r2"}
ServerTzs == {0, 1}
Dates == 0..((MaxNow + 1) \div 2)

\* Python's None where the code returns "int | None"
None == -1
\* an exception that left generate_report_with_ticker
RAISED == "RAISED"
NoBody == ""

VARIABLES
    now,            \* the instant, in half days
    serverTz,       \* offset of the server's local clock (1 = business timezone)
    reports,        \* table stock_reports: committed rows
    txn,            \* per process: rows written by its open transaction
    pc,             \* per process: position in generate_report_with_ticker / insert_stock_report
    ticker,         \* per process: argument ticker
    today,          \* per process: local variable today (line 74)
    report_content, \* per process: local variable report_content (line 85)
    stock_report,   \* per process: argument list of insert_stock_report
    insert_result,  \* per process: value returned by insert_stock_report
    result,         \* per process: value returned by generate_report_with_ticker
    calls,          \* number of calls started so far
    steps,          \* per process: steps of the current call, in order
    callBiz,        \* per process: business date at the instant of the call
    missAtCall,     \* per process: no report of the ticker and day existed at the call
    lookupFailed,   \* per process: the cache lookup of the current call raised
    overlap,        \* per process: processes whose current call overlaps this one
    prev,           \* per process: the previous completed call
    session,        \* per process: it holds an open database session
    writeLog,       \* per key: the last two bodies committed by direct upserts
    news,           \* table stock_news: committed rows
    chunks,         \* table stock_news_chunks: committed rows
    writer,         \* per news writer: its call of insert_stock_news / insert_multiple_stock_news
    origin,         \* per url: the call that inserted the parent row of that url
    newsCalls,      \* number of news-store calls started so far
    search,         \* the call of get_stock_news_llm_context / get_stock_news
    job,            \* the run of collect_all_stock_data
    stock_data,     \* table stock_data: committed rows
    news_collector, \* the NewsDataCollector that was constructed
    llm_service,    \* dependencies._llm_service
    mcp_client,     \* dependencies._mcp_client
    mcp_tools,      \* dependencies._mcp_tools
    llm_lock,       \* dependencies._llm_lock: its holder
    mcp_lock,       \* dependencies._mcp_lock: its holder
    dpc,            \* per caller: position in get_llm_service
    got,            \* per caller: the value get_llm_service returned
    llm_built,      \* number of LLMService objects constructed
    mcp_built,      \* number of MultiServerMCPClient objects constructed
    dep_calls,      \* number of get_llm_service calls started so far
    edgar_identity  \* EDGAR_IDENTITY is set and is not the placeholder

rvars == <<now, serverTz, reports, txn, pc, ticker, today, report_content,
           stock_report, insert_result, result, calls, steps, callBiz,
           missAtCall, lookupFailed, overlap, prev, session, writeLog>>

nvars == <<news, chunks, writer, origin, newsCalls>>

svars == <<search>>

dvars == <<llm_service, mcp_client, mcp_tools, llm_lock, mcp_lock, dpc, got,
           llm_built, mcp_built, dep_calls, edgar_identity>>

\* ---------------------------------------------------------------- clocks

\* datetime.now().date(): the date on the server's local clock
LocalDate(n) == (n + serverTz) \div 2

\* get_today_in_business_timezone(): the date in BUSINESS_TIMEZONE
get_today_in_business_timezone(n) == (n + 1) \div 2

\* StockReportCreate.normalize_to_date: a datetime is cut to its date
normalize_to_date(n) == LocalDate(n)

\* ---------------------------------------------------------------- report cache

MaxId(rows) == IF rows = {} THEN 0
               ELSE CHOOSE i \in {r.id : r \in rows} : \A r \in rows : r.id <= i

SameKey(r, d) == r.ticker = d.ticker /\ r.created_at = d.created_at

\* INSERT without a conflict clause on a table without the constraint
PlainInsertRow(rows, d, dbDate) ==
    rows \cup {[id |-> MaxId(rows) + 1, ticker |-> d.ticker,
                created_at |-> d.created_at, report |-> d.report,
                updated_at |-> dbDate]}

\* the statement with on_conflict_do_nothing in place of on_conflict_do_update
InsertOrIgnoreRow(rows, d, dbDate) ==
    IF \E r \in rows : SameKey(r, d)
    THEN rows
    ELSE rows \cup {[id |-> MaxId(rows) + 1, ticker |-> d.ticker,
                     created_at |-> d.created_at, report |-> d.report,
                     updated_at |-> dbDate]}

\* one VALUES row of insert(StockReport).on_conflict_do_update(
\*   index_elements=['ticker','created_at'], set_={report, updated_at})
UpsertRow(rows, d, dbDate) ==
    IF \E r \in rows : SameKey(r, d)
    THEN {IF SameKey(r, d)
          THEN [r EXCEPT !.report = d.report, !.updated_at = dbDate]
          ELSE r : r \in rows}
    ELSE rows \cup {[id |-> MaxId(rows) + 1, ticker |-> d.ticker,
                     created_at |-> d.created_at, report |-> d.report,
                     updated_at |-> dbDate]}

\* the statement over the whole VALUES list
RECURSIVE UpsertRows(_, _, _)
UpsertRows(rows, data, dbDate) ==
    IF data = <<>> THEN rows
    ELSE UpsertRows(UpsertRow(rows, Head(data), dbDate), Tail(data), dbDate)

\* the keys a VALUES list writes
KeysOf(data) == {<<data[i].ticker, data[i].created_at>> : i \in 1..Len(data)}

\* a unique-index entry of another open transaction blocks the statement
Blocked(p, data) ==
    \E q \in Callers \ {p} : KeysOf(txn[q]) \cap KeysOf(data) # {}

\* select(StockReport).where(ticker ==, created_at ==) + scalar_one_or_none:
\* the set holding the row, or the empty set for None (also on an exception)
MatchingReports(t, d) == {r \in reports : r.ticker = t /\ r.created_at = d}

\* "return None" after the warning "No stock report found"
Absent == {}

get_stock_report_with_date(t, d, dbOk) ==
    IF dbOk /\ Cardinality(MatchingReports(t, d)) = 1
    THEN MatchingReports(t, d)
    ELSE {}

StockReportCreate(t, body, created_at) ==
    [ticker |-> t, report |-> body, created_at |-> created_at]

\* ---------------------------------------------------------------- insert_stock_report

\* async with self._get_session(): session = self.session_factory()
OpenSession(p) == [session EXCEPT ![p] = TRUE]

\* the session is never closed
LeakSession(p) == session

\* leaving the async with: finally: await session.close()
CloseSession(p) == [session EXCEPT ![p] = FALSE]

\* ON CONFLICT DO UPDATE refuses a VALUES list that names one key twice
AffectsRowTwice(data) ==
    \E i, j \in 1..Len(data) : i < j /\ SameKey(data[i], data[j])

\* session.execute(stmt) succeeds: the rows are written inside the transaction
ExecuteUpsert(p) ==
    /\ ~AffectsRowTwice(stock_report[p])
    /\ ~Blocked(p, stock_report[p])
    /\ txn' = [txn EXCEPT ![p] = stock_report[p]]
    /\ UNCHANGED <<reports, insert_result, session>>

\* session.execute(stmt) raises: rollback, return None
ExecuteUpsertRaises(p) ==
    /\ txn' = [txn EXCEPT ![p] = <<>>]
    /\ insert_result' = [insert_result EXCEPT ![p] = None]
    /\ session' = CloseSession(p)
    /\ UNCHANGED reports

\* session.commit() succeeds: the rows become visible, return rowcount
CommitUpsert(p) ==
    /\ reports' = UpsertRows(reports, txn[p], LocalDate(now))
    /\ txn' = [txn EXCEPT ![p] = <<>>]
    /\ insert_result' = [insert_result EXCEPT ![p] = Len(txn[p])]
    /\ session' = CloseSession(p)

\* session.commit() raises: rollback, return None
CommitUpsertRaises(p) ==
    /\ txn' = [txn EXCEPT ![p] = <<>>]
    /\ insert_result' = [insert_result EXCEPT ![p] = None]
    /\ session' = CloseSession(p)
    /\ UNCHANGED reports

\* ---------------------------------------------------------------- generate_report_with_ticker

Active(p) == pc[p] \notin {"idle", "done"}

clockvars == <<now, serverTz>>
ghostvars == <<callBiz, missAtCall, overlap, prev, writeLog>>
allghost == <<ghostvars, lookupFailed>>

NoPrev == [t |-> "", biz |-> 0, result |-> NoBody, stored |-> FALSE]

Generated(p) == \E i \in 1..Len(steps[p]) : steps[p][i] = "generate"

\* what is remembered of a call that has returned
Completed(p) ==
    [t |-> ticker[p], biz |-> callBiz[p], result |-> result[p],
     stored |-> Generated(p) /\ result[p] # RAISED /\ insert_result[p] # None]

\* the call: today = datetime.now().date(), then the cache check is awaited
Call(p, t) ==
    /\ pc[p] \in {"idle", "done"}
    /\ calls < MaxCalls
    /\ pc' = [pc EXCEPT ![p] = "check"]
    /\ ticker' = [ticker EXCEPT ![p] = t]
    /\ today' = [today EXCEPT ![p] = LocalDate(now)]
    /\ calls' = calls + 1
    /\ steps' = [steps EXCEPT ![p] = <<>>]
    /\ callBiz' = [callBiz EXCEPT ![p] = get_today_in_business_timezone(now)]
    /\ missAtCall' = [missAtCall EXCEPT ![p] =
                        /\ MatchingReports(t, LocalDate(now)) = {}
                        /\ MatchingReports(t, get_today_in_business_timezone(now)) = {}]
    /\ lookupFailed' = [lookupFailed EXCEPT ![p] = FALSE]
    /\ overlap' = [q \in Callers |->
                     IF q = p THEN {x \in Callers \ {p} : Active(x)}
                     ELSE IF Active(q) THEN overlap[q] \cup {p}
                     ELSE overlap[q] \ {p}]
    /\ result' = [result EXCEPT ![p] = NoBody]
    /\ report_content' = [report_content EXCEPT ![p] = NoBody]
    /\ prev' = [prev EXCEPT ![p] = IF pc[p] = "done" THEN Completed(p) ELSE @]
    /\ stock_report' = [stock_report EXCEPT ![p] = <<>>]
    /\ insert_result' = [insert_result EXCEPT ![p] = 0]
    /\ UNCHANGED <<clockvars, reports, txn, writeLog>>
    /\ session' = OpenSession(p)
    /\ UNCHANGED <<nvars, svars, job, stock_data, news_collector, dvars>>

\* existing_report = await get_stock_report_with_date(ticker, today)
\* a report is found: return existing_report.report
CheckCacheHit(p) ==
    /\ pc[p] = "check"
    /\ \E dbOk \in BOOLEAN :
         LET existing_report == get_stock_report_with_date(ticker[p], today[p], dbOk)
         IN /\ existing_report # {}
            /\ result' = [result EXCEPT ![p] =
                            (CHOOSE r \in existing_report : TRUE).report]
    /\ pc' = [pc EXCEPT ![p] = "done"]
    /\ steps' = [steps EXCEPT ![p] = Append(@, "check")]
    /\ UNCHANGED <<clockvars, reports, txn, ticker, today, report_content,
                   stock_report, insert_result, calls, allghost>>
    /\ session' = CloseSession(p)
    /\ UNCHANGED <<nvars, svars, job, stock_data, news_collector, dvars>>

\* no report is found, or the lookup failed and returned None
CheckCacheMiss(p) ==
    /\ pc[p] = "check"
    /\ \E dbOk \in BOOLEAN :
         /\ get_stock_report_with_date(ticker[p], today[p], dbOk) = {}
         /\ lookupFailed' = [lookupFailed EXCEPT ![p] = ~dbOk]
    /\ pc' = [pc EXCEPT ![p] = "generate"]
    /\ steps' = [steps EXCEPT ![p] = Append(@, "check")]
    /\ UNCHANGED <<clockvars, reports, txn, ticker, today, report_content,
                   stock_report, insert_result, result, calls, ghostvars>>
    /\ session' = CloseSession(p)
    /\ UNCHANGED <<nvars, svars, job, stock_data, news_collector, dvars>>

\* _ensure_llm_module_initialized(); llm_module.generate_report_with_ticker(ticker)
\* is invoked
GenerateStart(p) ==
    /\ pc[p] = "generate"
    /\ pc' = [pc EXCEPT ![p] = "generating"]
    /\ steps' = [steps EXCEPT ![p] = Append(@, "generate")]
    /\ UNCHANGED <<clockvars, reports, txn, ticker, today, report_content,
                   stock_report, insert_result, result, calls, allghost>>
    /\ UNCHANGED session
    /\ UNCHANGED <<nvars, svars, job, stock_data, news_collector, dvars>>

\* the agent returns a text; StockReportCreate(created_at=datetime.now()) is
\* built and insert_stock_report([stock_report]) opens its session
GenerateReturn(p, body) ==
    /\ pc[p] = "generating"
    /\ report_content' = [report_content EXCEPT ![p] = body]
    /\ stock_report' = [stock_report EXCEPT ![p] =
                          <<StockReportCreate(ticker[p], body, normalize_to_date(now))>>]
    /\ pc' = [pc EXCEPT ![p] = "upsert_exec"]
    /\ steps' = [steps EXCEPT ![p] = Append(@, "persist")]
    /\ UNCHANGED <<clockvars, reports, txn, ticker, today, insert_result,
                   result, calls, allghost>>
    /\ session' = OpenSession(p)
    /\ UNCHANGED <<nvars, svars, job, stock_data, news_collector, dvars>>

\* the exception of the agent is caught and an empty report is returned
GenerateRaisesSwallowed(p) ==
    /\ pc[p] = "generating"
    /\ result' = [result EXCEPT ![p] = NoBody]
    /\ pc' = [pc EXCEPT ![p] = "done"]
    /\ UNCHANGED <<clockvars, reports, txn, ticker, today, report_content,
                   stock_report, insert_result, calls, steps, allghost>>
    /\ UNCHANGED session
    /\ UNCHANGED <<nvars, svars, job, stock_data, news_collector, dvars>>

\* the agent (or the tool set-up) raises: the exception leaves the method
GenerateRaises(p) ==
    /\ pc[p] = "generating"
    /\ result' = [result EXCEPT ![p] = RAISED]
    /\ pc' = [pc EXCEPT ![p] = "done"]
    /\ UNCHANGED <<clockvars, reports, txn, ticker, today, report_content,
                   stock_report, insert_result, calls, steps, allghost>>
    /\ UNCHANGED session
    /\ UNCHANGED <<nvars, svars, job, stock_data, news_collector, dvars>>

\* a failed save makes the call fail
RaiseUnlessSaved(content, saved) == IF saved = None THEN RAISED ELSE content

\* insert_result is checked for None only to choose the log line:
\* report_content is returned either way
ReturnReport(content, saved) == content

PersistExecute(p) ==
    /\ pc[p] = "upsert_exec"
    /\ ExecuteUpsert(p)
    /\ pc' = [pc EXCEPT ![p] = "upsert_commit"]
    /\ UNCHANGED <<clockvars, ticker, today, report_content, stock_report,
                   result, calls, steps, allghost>>
    /\ UNCHANGED <<nvars, svars, job, stock_data, news_collector, dvars>>

\* insert_result is None: the failure is logged, report_content is returned
PersistExecuteRaises(p) ==
    /\ pc[p] = "upsert_exec"
    /\ ExecuteUpsertRaises(p)
    /\ result' = [result EXCEPT ![p] =
                    ReturnReport(report_content[p], insert_result'[p])]
    /\ pc' = [pc EXCEPT ![p] = "done"]
    /\ UNCHANGED <<clockvars, ticker, today, report_content, stock_report,
                   calls, steps, allghost>>
    /\ UNCHANGED <<nvars, svars, job, stock_data, news_collector, dvars>>

PersistCommit(p) ==
    /\ pc[p] = "upsert_commit"
    /\ CommitUpsert(p)
    /\ result' = [result EXCEPT ![p] =
                    ReturnReport(report_content[p], insert_result'[p])]
    /\ pc' = [pc EXCEPT ![p] = "done"]
    /\ UNCHANGED <<clockvars, ticker, today, report_content, stock_report,
                   calls, steps, allghost>>
    /\ UNCHANGED <<nvars, svars, job, stock_data, news_collector, dvars>>

PersistCommitRaises(p) ==
    /\ pc[p] = "upsert_commit"
    /\ CommitUpsertRaises(p)
    /\ result' = [result EXCEPT ![p] =
                    ReturnReport(report_content[p], insert_result'[p])]
    /\ pc' = [pc EXCEPT ![p] = "done"]
    /\ UNCHANGED <<clockvars, ticker, today, report_content, stock_report,
                   calls, steps, allghost>>
    /\ UNCHANGED <<nvars, svars, job, stock_data, news_collector, dvars>>

\* half a day passes
Tick ==
    /\ now < MaxNow
    /\ now' = now + 1
    /\ UNCHANGED <<serverTz, reports, txn, pc, ticker, today, report_content,
                   stock_report, insert_result, result, calls, steps, allghost>>
    /\ UNCHANGED session
    /\ UNCHANGED <<nvars, svars, job, stock_data, news_collector, dvars>>

ReportInit ==
    /\ now = 0
    /\ serverTz \in ServerTzs
    /\ reports = {}
    /\ txn = [p \in Callers |-> <<>>]
    /\ pc = [p \in Callers |-> "idle"]
    /\ ticker = [p \in Callers |-> ""]
    /\ today = [p \in Callers |-> 0]
    /\ report_content = [p \in Callers |-> NoBody]
    /\ stock_report = [p \in Callers |-> <<>>]
    /\ insert_result = [p \in Callers |-> 0]
    /\ result = [p \in Callers |-> NoBody]
    /\ calls = 0
    /\ steps = [p \in Callers |-> <<>>]
    /\ callBiz = [p \in Callers |-> 0]
    /\ missAtCall = [p \in Callers |-> FALSE]
    /\ lookupFailed = [p \in Callers |-> FALSE]
    /\ overlap = [p \in Callers |-> {}]
    /\ prev = [p \in Callers |-> NoPrev]
    /\ session = [p \in Callers |-> FALSE]
    /\ writeLog = [k \in Tickers \X Dates |-> <<>>]

\* ---------------------------------------------------------------- direct callers of insert_stock_report

MaxBatch == 1
MaxWrites == 3
NWriters == 2
MaxItems == 2
MaxChunks == 2
MaxNewsCalls == 2

WriterDates == {0, 1}

ReportData == [ticker : Tickers, report : Bodies, created_at : WriterDates]

ReportLists == UNION {[1..n -> ReportData] : n \in 0..MaxBatch}

orchvars == <<ticker, today, report_content, result, steps, callBiz,
              missAtCall, lookupFailed, prev>>

\* the log after a committed VALUES list: per key the last two bodies
LastTwo(sq) == IF Len(sq) <= 2 THEN sq ELSE Tail(sq)

Logged(data) ==
    [k \in Tickers \X Dates |->
        IF \E i \in 1..Len(data) : <<data[i].ticker, data[i].created_at>> = k
        THEN LastTwo(Append(writeLog[k],
                 data[CHOOSE i \in 1..Len(data) :
                        <<data[i].ticker, data[i].created_at>> = k].report))
        ELSE writeLog[k]]

OverlapAtCall(p) ==
    [q \in Callers |->
        IF q = p THEN {x \in Callers \ {p} : Active(x)}
        ELSE IF Active(q) THEN overlap[q] \cup {p}
        ELSE overlap[q] \ {p}]

\* insert_stock_report(data) with a non-empty list: the session is opened
WriterCall(p, data) ==
    /\ pc[p] \in {"idle", "done"}
    /\ calls < MaxWrites
    /\ data # <<>>
    /\ calls' = calls + 1
    /\ stock_report' = [stock_report EXCEPT ![p] = data]
    /\ insert_result' = [insert_result EXCEPT ![p] = 0]
    /\ pc' = [pc EXCEPT ![p] = "upsert_exec"]
    /\ overlap' = OverlapAtCall(p)
    /\ UNCHANGED <<clockvars, reports, txn, orchvars, writeLog>>
    /\ session' = OpenSession(p)
    /\ UNCHANGED <<nvars, svars, job, stock_data, news_collector, dvars>>

\* insert_stock_report([]): "if not stock_report: return 0", no session
WriterCallEmpty(p) ==
    /\ pc[p] \in {"idle", "done"}
    /\ calls < MaxWrites
    /\ calls' = calls + 1
    /\ stock_report' = [stock_report EXCEPT ![p] = <<>>]
    /\ insert_result' = [insert_result EXCEPT ![p] = 0]
    /\ pc' = [pc EXCEPT ![p] = "done"]
    /\ overlap' = OverlapAtCall(p)
    /\ UNCHANGED <<clockvars, reports, txn, orchvars, writeLog>>
    /\ UNCHANGED session
    /\ UNCHANGED <<nvars, svars, job, stock_data, news_collector, dvars>>

WriterExecute(p) ==
    /\ pc[p] = "upsert_exec"
    /\ ExecuteUpsert(p)
    /\ pc' = [pc EXCEPT ![p] = "upsert_commit"]
    /\ UNCHANGED <<clockvars, stock_report, calls, overlap, orchvars, writeLog>>
    /\ UNCHANGED <<nvars, svars, job, stock_data, news_collector, dvars>>

WriterExecuteRaises(p) ==
    /\ pc[p] = "upsert_exec"
    /\ ExecuteUpsertRaises(p)
    /\ pc' = [pc EXCEPT ![p] = "done"]
    /\ UNCHANGED <<clockvars, stock_report, calls, overlap, orchvars, writeLog>>
    /\ UNCHANGED <<nvars, svars, job, stock_data, news_collector, dvars>>

WriterCommit(p) ==
    /\ pc[p] = "upsert_commit"
    /\ CommitUpsert(p)
    /\ writeLog' = Logged(txn[p])
    /\ pc' = [pc EXCEPT ![p] = "done"]
    /\ UNCHANGED <<clockvars, stock_report, calls, overlap, orchvars>>
    /\ UNCHANGED <<nvars, svars, job, stock_data, news_collector, dvars>>

WriterCommitRaises(p) ==
    /\ pc[p] = "upsert_commit"
    /\ CommitUpsertRaises(p)
    /\ pc' = [pc EXCEPT ![p] = "done"]
    /\ UNCHANGED <<clockvars, stock_report, calls, overlap, orchvars, writeLog>>
    /\ UNCHANGED <<nvars, svars, job, stock_data, news_collector, dvars>>

NextCache ==
    \/ \E p \in Callers, data \in ReportLists : WriterCall(p, data)
    \/ \E p \in Callers : WriterCallEmpty(p)
    \/ \E p \in Callers : WriterExecute(p)
    \/ \E p \in Callers : WriterExecuteRaises(p)
    \/ \E p \in Callers : WriterCommit(p)
    \/ \E p \in Callers : WriterCommitRaises(p)

\* ---------------------------------------------------------------- news store

NewsWriters == 1..NWriters
Urls == {"u1", "u2"}

\* Vector(768): the dimension of stock_news_chunks.embedding
EmbeddingDim == 768
\* the dimensions the configured embedding model may produce
EmbedDims == {768, 1024}
\* scalar_one_or_none() of RETURNING id when nothing was inserted
NoId == 0

\* twice the cosine of 0, 60, 120 and 180 degrees
Cos2 == <<2, 1, -1, -2>>

\* embedding_model.aembed_documents / aembed_query: a text (a number) is
\* mapped to a unit vector of the model's dimension, given by its angle in
\* steps of 60 degrees
aembed(text, dim) == [dim |-> dim, angle |-> text % Len(Cos2)]

\* StockNewsCreate, and a (StockNewsCreate, List[StockNewsChunkCreate]) pair
\* as fetch_news builds it: n chunks, each with the ticker of the document;
\* a pair without chunks comes from a direct caller of the repository only
NewsDocs == {[url |-> "u1", ticker |-> "AAPL"], [url |-> "u2", ticker |-> "TSLA"]}
NewsItems ==
    [doc : NewsDocs, n : {MaxChunks}]
        \cup {[doc |-> [url |-> "u1", ticker |-> "TSLA"], n |-> 0]}
NewsLists == UNION {[1..k -> NewsItems] : k \in 0..MaxItems}

ChunkInputs(item) ==
    [i \in 1..item.n |-> [ticker |-> item.doc.ticker, content |-> i]]

\* okIds: the parent ids of the items counted in success_count; leftIds: the
\* parent ids of the items whose chunk insert raised
IdleWriter ==
    [pc |-> "idle", kind |-> "", job |-> <<>>, idx |-> 0, supplied |-> 0,
     chunk_data_list |-> <<>>, total_affected |-> 0, ret |-> 0, trace |-> <<>>,
     tnews |-> {}, tchunks |-> {}, tstate |-> "ok",
     dupAtCall |-> FALSE, faulted |-> FALSE, overlap |-> {}, urls |-> {},
     okIds |-> {}, leftIds |-> {}]

NoOrigin == [w |-> 0, n |-> 0, dim |-> 0, chunkRaised |-> FALSE]

\* rows a statement of writer w sees: committed rows and its own
VisibleNews(w) == news \cup writer[w].tnews

AllNews == news \cup UNION {writer[w].tnews : w \in NewsWriters}
AllChunks == chunks \cup UNION {writer[w].tchunks : w \in NewsWriters}

\* the unique index on url makes the insert wait for an open transaction
\* that has written the same url
NewsBlocked(w, url) ==
    \E x \in NewsWriters \ {w} : \E r \in writer[x].tnews : r.url = url

\* the news row is inserted first, without waiting for embeddings
FirstStepInsert(item) == "parent"

\* the first awaited step of one item: embeddings are generated before the
\* news row is inserted, when chunks are supplied
FirstStep(item) == IF item.n > 0 THEN "embed" ELSE "parent"

\* the statement with a conflict clause that returns the id of the row met
ExistingOrInsertedNewsId(visible, all, doc) ==
    IF \E r \in visible : r.url = doc.url
    THEN (CHOOSE r \in visible : r.url = doc.url).id
    ELSE MaxId(all) + 1

\* insert(StockNews).on_conflict_do_nothing(index_elements=['url'])
\*   .returning(StockNews.id): the new id, or NoId on a conflict
InsertedNewsId(visible, all, doc) ==
    IF \E r \in visible : r.url = doc.url THEN NoId ELSE MaxId(all) + 1

\* the rows written when parent_id is left as it was prepared (None)
ChunkRowsUnparented(all, chunk_data_list) ==
    {[id |-> MaxId(all) + i, parent_id |-> NoId,
      ticker |-> chunk_data_list[i].ticker,
      content |-> chunk_data_list[i].content,
      embedding |-> chunk_data_list[i].embedding] : i \in 1..Len(chunk_data_list)}

\* insert(StockNewsChunk).values(chunk_data_list): the rows written
ChunkRows(all, chunk_data_list) ==
    {[id |-> MaxId(all) + i, parent_id |-> chunk_data_list[i].parent_id,
      ticker |-> chunk_data_list[i].ticker,
      content |-> chunk_data_list[i].content,
      embedding |-> chunk_data_list[i].embedding] : i \in 1..Len(chunk_data_list)}

\* the loop of insert_multiple_stock_news moves to the next item, or to the
\* commit after the last one
NextItem(r) ==
    IF r.idx + 1 > Len(r.job)
    THEN [r EXCEPT !.idx = @ + 1, !.pc = "commit", !.chunk_data_list = <<>>]
    ELSE [r EXCEPT !.idx = @ + 1, !.pc = FirstStep(r.job[r.idx + 1]),
                   !.supplied = r.job[r.idx + 1].n,
                   !.chunk_data_list = <<>>, !.trace = <<>>]

\* the method returns v: the session is closed, the locals are gone
Returned(r, v) ==
    [r EXCEPT !.pc = "done", !.ret = v, !.tnews = {}, !.tchunks = {},
              !.tstate = "ok", !.job = <<>>, !.idx = 0, !.supplied = 0,
              !.chunk_data_list = <<>>, !.trace = <<>>, !.total_affected = 0,
              !.okIds = {}, !.leftIds = {}]

\* the outer except returns None and leaves the transaction as it is
FailedWithoutRollback(r) ==
    [Returned([r EXCEPT !.faulted = TRUE], None)
        EXCEPT !.tnews = r.tnews, !.tchunks = r.tchunks]

\* the outer except: rollback, return None
Failed(r) == Returned([r EXCEPT !.faulted = TRUE], None)

\* an exception inside one item: insert_stock_news fails as a whole,
\* insert_multiple_stock_news logs it and continues with the next item
ItemRaised(r, aborts) ==
    IF r.kind = "single" THEN Failed(r)
    ELSE NextItem([r EXCEPT !.faulted = TRUE,
                            !.tstate = IF aborts THEN "aborted" ELSE @])

NewsOverlap(w) ==
    {x \in NewsWriters \ {w} : writer[x].pc \notin {"idle", "done"}}

Started(w, r) ==
    [x \in NewsWriters |->
        IF x = w THEN r
        ELSE IF writer[x].pc \notin {"idle", "done"}
             THEN [writer[x] EXCEPT !.overlap = @ \cup {w}]
             ELSE [writer[x] EXCEPT !.overlap = @ \ {w}]]

\* insert_stock_news(stock_news, chunks): the session is opened
InsertNews(w, item) ==
    /\ writer[w].pc \in {"idle", "done"}
    /\ newsCalls < MaxNewsCalls
    /\ newsCalls' = newsCalls + 1
    /\ writer' = Started(w,
         [IdleWriter EXCEPT !.pc = FirstStep(item), !.kind = "single",
                            !.job = <<item>>, !.idx = 1, !.supplied = item.n,
                            !.dupAtCall = \E r \in news : r.url = item.doc.url,
                            !.urls = {item.doc.url},
                            !.overlap = NewsOverlap(w)])
    /\ UNCHANGED <<news, chunks, origin>>
    /\ UNCHANGED <<rvars, svars, job, stock_data, news_collector, dvars>>

\* insert_multiple_stock_news(news_list) with a non-empty list
InsertMultipleNews(w, news_list) ==
    /\ writer[w].pc \in {"idle", "done"}
    /\ newsCalls < MaxNewsCalls
    /\ news_list # <<>>
    /\ newsCalls' = newsCalls + 1
    /\ writer' = Started(w,
         [IdleWriter EXCEPT !.pc = FirstStep(news_list[1]), !.kind = "multiple",
                            !.job = news_list, !.idx = 1,
                            !.supplied = news_list[1].n,
                            !.urls = {news_list[i].doc.url : i \in 1..Len(news_list)},
                            !.overlap = NewsOverlap(w)])
    /\ UNCHANGED <<news, chunks, origin>>
    /\ UNCHANGED <<rvars, svars, job, stock_data, news_collector, dvars>>

\* insert_multiple_stock_news([]): "if not news_list: return 0"
InsertMultipleNewsEmpty(w) ==
    /\ writer[w].pc \in {"idle", "done"}
    /\ newsCalls < MaxNewsCalls
    /\ newsCalls' = newsCalls + 1
    /\ writer' = Started(w, [IdleWriter EXCEPT !.pc = "done", !.kind = "multiple",
                                               !.overlap = NewsOverlap(w)])
    /\ UNCHANGED <<news, chunks, origin>>
    /\ UNCHANGED <<rvars, svars, job, stock_data, news_collector, dvars>>

\* embeddings = await aembed_documents(chunk_contents) returns vectors of
\* dimension dim; chunk_data_list is prepared with parent_id None
EmbedChunks(w, dim) ==
    LET r == writer[w]
        item == r.job[r.idx]
        inputs == ChunkInputs(item)
    IN /\ r.pc = "embed"
       /\ writer' = [writer EXCEPT ![w] =
            [r EXCEPT !.pc = "parent",
                      !.trace = Append(@, "embed"),
                      !.chunk_data_list =
                          [i \in 1..Len(inputs) |->
                              [ticker |-> inputs[i].ticker,
                               content |-> inputs[i].content,
                               embedding |-> aembed(inputs[i].content, dim),
                               parent_id |-> NoId]]]]
       /\ UNCHANGED <<news, chunks, origin, newsCalls>>
       /\ UNCHANGED <<rvars, svars, job, stock_data, news_collector, dvars>>

\* aembed_documents raises: logged and re-raised
EmbedRaises(w) ==
    LET r == writer[w]
    IN /\ r.pc = "embed"
       /\ writer' = [writer EXCEPT ![w] = ItemRaised(r, FALSE)]
       /\ UNCHANGED <<news, chunks, origin, newsCalls>>
       /\ UNCHANGED <<rvars, svars, job, stock_data, news_collector, dvars>>

\* the news insert returns a new id: chunk_data_list gets its parent_id
InsertParent(w) ==
    LET r == writer[w]
        item == r.job[r.idx]
        id == InsertedNewsId(VisibleNews(w), AllNews, item.doc)
        withParent == [i \in 1..Len(r.chunk_data_list) |->
                          [r.chunk_data_list[i] EXCEPT !.parent_id = id]]
        r1 == [r EXCEPT !.trace = Append(@, "parent"),
                        !.tnews = @ \cup {[id |-> id, url |-> item.doc.url,
                                           ticker |-> item.doc.ticker]},
                        !.chunk_data_list = withParent]
    IN /\ r.pc = "parent"
       /\ r.tstate = "ok"
       /\ ~NewsBlocked(w, item.doc.url)
       /\ id # NoId
       /\ writer' = [writer EXCEPT ![w] =
            IF withParent # <<>> THEN [r1 EXCEPT !.pc = "chunks"]
            ELSE IF r.kind = "single"
                 THEN [r1 EXCEPT !.pc = "commit", !.total_affected = 1]
                 ELSE NextItem([r1 EXCEPT !.total_affected = @ + 1,
                                          !.okIds = @ \cup {id}])]
       /\ origin' = [origin EXCEPT ![item.doc.url] =
                        [w |-> w, n |-> item.n,
                         dim |-> IF r.chunk_data_list = <<>> THEN 0
                                 ELSE r.chunk_data_list[1].embedding.dim,
                         chunkRaised |-> FALSE]]
       /\ UNCHANGED <<news, chunks, newsCalls>>
       /\ UNCHANGED <<rvars, svars, job, stock_data, news_collector, dvars>>

\* the news insert meets the url: nothing is inserted, no id is returned;
\* insert_stock_news returns 0, insert_multiple_stock_news skips the item
InsertParentConflict(w) ==
    LET r == writer[w]
        item == r.job[r.idx]
        r1 == [r EXCEPT !.trace = Append(@, "parent")]
    IN /\ r.pc = "parent"
       /\ r.tstate = "ok"
       /\ ~NewsBlocked(w, item.doc.url)
       /\ InsertedNewsId(VisibleNews(w), AllNews, item.doc) = NoId
       /\ writer' = [writer EXCEPT ![w] =
            IF r.kind = "single"
            THEN Returned(r1, 0)
            ELSE NextItem(r1)]
       /\ UNCHANGED <<news, chunks, origin, newsCalls>>
       /\ UNCHANGED <<rvars, svars, job, stock_data, news_collector, dvars>>

\* the news insert raises on the server (always so once the transaction is
\* aborted): the transaction is aborted
InsertParentRaises(w) ==
    LET r == writer[w]
    IN /\ r.pc = "parent"
       /\ writer' = [writer EXCEPT ![w] =
            ItemRaised([r EXCEPT !.trace = Append(@, "parent")], TRUE)]
       /\ UNCHANGED <<news, chunks, origin, newsCalls>>
       /\ UNCHANGED <<rvars, svars, job, stock_data, news_collector, dvars>>

\* the chunk insert writes its rows
InsertChunks(w) ==
    LET r == writer[w]
        rows == ChunkRows(AllChunks, r.chunk_data_list)
        r1 == [r EXCEPT !.trace = Append(@, "chunks"), !.tchunks = @ \cup rows]
    IN /\ r.pc = "chunks"
       /\ r.tstate = "ok"
       /\ \A i \in 1..Len(r.chunk_data_list) :
              r.chunk_data_list[i].embedding.dim = EmbeddingDim
       /\ writer' = [writer EXCEPT ![w] =
            IF r.kind = "single"
            THEN [r1 EXCEPT !.pc = "commit",
                            !.total_affected = 1 + Cardinality(rows)]
            ELSE NextItem([r1 EXCEPT !.total_affected = @ + 1 + Cardinality(rows),
                                     !.okIds = @ \cup {r.chunk_data_list[1].parent_id}])]
       /\ UNCHANGED <<news, chunks, origin, newsCalls>>
       /\ UNCHANGED <<rvars, svars, job, stock_data, news_collector, dvars>>

\* the chunk insert raises while the statement is built: an embedding of
\* another dimension than the column's is refused before it is sent, and the
\* transaction stays usable
InsertChunksRefused(w) ==
    LET r == writer[w]
        item == r.job[r.idx]
    IN /\ r.pc = "chunks"
       /\ \E i \in 1..Len(r.chunk_data_list) :
              r.chunk_data_list[i].embedding.dim # EmbeddingDim
       /\ writer' = [writer EXCEPT ![w] =
            ItemRaised([r EXCEPT !.trace = Append(@, "chunks"),
                                 !.leftIds = @ \cup {r.chunk_data_list[1].parent_id}],
                       FALSE)]
       /\ origin' = [origin EXCEPT ![item.doc.url].chunkRaised = TRUE]
       /\ UNCHANGED <<news, chunks, newsCalls>>
       /\ UNCHANGED <<rvars, svars, job, stock_data, news_collector, dvars>>

\* the chunk insert raises on the server: the transaction is aborted
InsertChunksRaises(w) ==
    LET r == writer[w]
        item == r.job[r.idx]
    IN /\ r.pc = "chunks"
       /\ writer' = [writer EXCEPT ![w] =
            ItemRaised([r EXCEPT !.trace = Append(@, "chunks"),
                                 !.leftIds = @ \cup {r.chunk_data_list[1].parent_id}],
                       TRUE)]
       /\ origin' = [origin EXCEPT ![item.doc.url].chunkRaised = TRUE]
       /\ UNCHANGED <<news, chunks, newsCalls>>
       /\ UNCHANGED <<rvars, svars, job, stock_data, news_collector, dvars>>

\* session.commit(): the rows of a usable transaction become visible, an
\* aborted transaction is ended without a row; total_affected is returned
CommitNews(w) ==
    LET r == writer[w]
    IN /\ r.pc = "commit"
       /\ news' = IF r.tstate = "ok" THEN news \cup r.tnews ELSE news
       /\ chunks' = IF r.tstate = "ok" THEN chunks \cup r.tchunks ELSE chunks
       /\ writer' = [writer EXCEPT ![w] =
            Returned(r, r.total_affected)]
       /\ UNCHANGED <<origin, newsCalls>>
       /\ UNCHANGED <<rvars, svars, job, stock_data, news_collector, dvars>>

\* session.commit() raises: rollback, return None
CommitNewsRaises(w) ==
    LET r == writer[w]
    IN /\ r.pc = "commit"
       /\ writer' = [writer EXCEPT ![w] = Failed(r)]
       /\ UNCHANGED <<news, chunks, origin, newsCalls>>
       /\ UNCHANGED <<rvars, svars, job, stock_data, news_collector, dvars>>

NewsInit ==
    /\ news = {}
    /\ chunks = {}
    /\ writer = [w \in NewsWriters |-> IdleWriter]
    /\ origin = [u \in Urls |-> NoOrigin]
    /\ newsCalls = 0

NextNews ==
    \/ \E w \in NewsWriters, item \in NewsItems : InsertNews(w, item)
    \/ \E w \in NewsWriters, news_list \in NewsLists : InsertMultipleNews(w, news_list)
    \/ \E w \in NewsWriters : InsertMultipleNewsEmpty(w)
    \/ \E w \in NewsWriters, dim \in EmbedDims : EmbedChunks(w, dim)
    \/ \E w \in NewsWriters : EmbedRaises(w)
    \/ \E w \in NewsWriters : InsertParent(w)
    \/ \E w \in NewsWriters : InsertParentConflict(w)
    \/ \E w \in NewsWriters : InsertParentRaises(w)
    \/ \E w \in NewsWriters : InsertChunks(w)
    \/ \E w \in NewsWriters : InsertChunksRefused(w)
    \/ \E w \in NewsWriters : InsertChunksRaises(w)
    \/ \E w \in NewsWriters : CommitNews(w)
    \/ \E w \in NewsWriters : CommitNewsRaises(w)

\* ---------------------------------------------------------------- collect_all_stock_data

MaxBatchSize == 2

\* the news writer whose calls are the job's
JobWriter == 1

\* stock_data.volume is Column(Integer), a 32-bit column: volumes are counted
\* in units of 2^20 shares, and the column holds less than 2^31 shares
Int32Limit == 2048
\* volumes yfinance reports: an ordinary one, and one of an index (above
\* four thousand million shares)
Volumes == {1, 2 * Int32Limit}

\* get_unique_subscriptions_tickers()
Subscriptions == {<<>>, <<"AAPL", "TSLA">>}

\* collected: the price rows fetch_stock_price returned while the download
\* and the database worked
IdleJob ==
    [pc |-> "idle", tickers |-> <<>>,
     STOCK_DATA_BATCH_SIZE |-> 1, STOCK_NEWS_BATCH_SIZE |-> 1, i |-> 0,
     stock_data_success_count |-> 0, stock_data_failed_count |-> 0,
     stock_news_success_count |-> 0, stock_news_failed_count |-> 0,
     price_batches |-> 0, news_batches |-> 0, collected |-> {}]

\* batch = tickers[i:i + size]
Batch(tickers, i, size) ==
    SubSeq(tickers, i + 1, IF i + size < Len(tickers) THEN i + size ELSE Len(tickers))

total_batches(tickers, size) == (Len(tickers) + size - 1) \div size

\* the loop "for i in range(0, len(tickers), size)" after one batch: the next
\* batch, or the next phase after the last one
AfterBatch(j, size, nextPc) ==
    IF j.i + size < Len(j.tickers)
    THEN [j EXCEPT !.i = @ + size]
    ELSE [j EXCEPT !.i = 0, !.pc = nextPc]

\* fetch_stock_price(batch): nothing when yf.download raised, else the rows of
\* the tickers S that were processed (a ticker that raises is skipped)
fetch_stock_price(S, vol, downloadOk) ==
    IF downloadOk THEN {[ticker |-> t, volume |-> vol[t]] : t \in S} ELSE {}

StatementRaises(rows, dbOk) ==
    ~dbOk \/ \E r \in rows : r.volume >= Int32Limit

\* insert(Stock).values(stock_data_list).on_conflict_do_nothing(...): the rows
\* one statement inserts
InsertedStockData(stored, rows) ==
    {r \in rows : ~ \E s \in stored : s.ticker = r.ticker}

\* insert_stock_data: the number of affected rows, None when the statement
\* raised
insert_stock_data(stored, rows, dbOk) ==
    IF StatementRaises(rows, dbOk) THEN None
    ELSE Cardinality(InsertedStockData(stored, rows))

\* collect_and_save: False when nothing was fetched or "if result" fails
collect_and_save(stored, rows, dbOk) ==
    IF rows = {} THEN FALSE
    ELSE insert_stock_data(stored, rows, dbOk) \notin {None, 0}

\* the (StockNewsCreate, chunks) pair fetch_news builds for a ticker
ItemOf(t) == [doc |-> CHOOSE d \in NewsDocs : d.ticker = t, n |-> MaxChunks]

\* fetch_news(batch): the items of the tickers S whose news were collected,
\* in the order of the batch (a ticker that raises is skipped)
fetch_news(batch, S) ==
    LET sel == SelectSeq(batch, LAMBDA t : t \in S)
    IN [k \in 1..Len(sel) |-> ItemOf(sel[k])]

\* collect_all_stock_data(): the subscribed tickers and the batch sizes
\* (STOCK_DATA_BATCH_SIZE, STOCK_NEWS_BATCH_SIZE after validation) are read;
\* without tickers the job returns
CollectAllStockData(tickers, data_size, news_size) ==
    /\ job.pc = "idle"
    /\ job' = [IdleJob EXCEPT !.pc = IF tickers = <<>> THEN "done" ELSE "price",
                              !.tickers = tickers,
                              !.STOCK_DATA_BATCH_SIZE = data_size,
                              !.STOCK_NEWS_BATCH_SIZE = news_size]
    /\ UNCHANGED stock_data
    /\ UNCHANGED <<rvars, nvars, svars, news_collector, dvars>>

\* one batch of the price phase: collect_and_save(batch, "1d")
CollectAndSave(S, vol, downloadOk, dbOk) ==
    LET size == job.STOCK_DATA_BATCH_SIZE
        batch == Batch(job.tickers, job.i, size)
        rows == fetch_stock_price(S, vol, downloadOk)
        saved == collect_and_save(stock_data, rows, dbOk)
        counted == [job EXCEPT
            !.stock_data_success_count = IF saved THEN @ + Len(batch) ELSE @,
            !.stock_data_failed_count = IF saved THEN @ ELSE @ + Len(batch),
            !.price_batches = @ + 1,
            !.collected = IF downloadOk /\ dbOk THEN @ \cup rows ELSE @]
    IN /\ job.pc = "price"
       /\ S \subseteq {batch[k] : k \in 1..Len(batch)}
       /\ stock_data' = IF rows = {} \/ StatementRaises(rows, dbOk)
                        THEN stock_data
                        ELSE stock_data \cup InsertedStockData(stock_data, rows)
       /\ job' = AfterBatch(counted, size, "news")
       /\ UNCHANGED <<rvars, nvars, svars, news_collector, dvars>>

\* one batch of the news phase, nothing collected:
\* collect_and_save_stock_news returns False
CollectNoNews ==
    LET size == job.STOCK_NEWS_BATCH_SIZE
        batch == Batch(job.tickers, job.i, size)
    IN /\ job.pc = "news"
       /\ job' = AfterBatch([job EXCEPT !.stock_news_failed_count = @ + Len(batch),
                                        !.news_batches = @ + 1],
                            size, "done")
       /\ UNCHANGED stock_data
       /\ UNCHANGED <<rvars, nvars, svars, news_collector, dvars>>

\* one batch of the news phase: the collected items are handed to
\* insert_multiple_stock_news
CollectNews(S) ==
    LET size == job.STOCK_NEWS_BATCH_SIZE
        batch == Batch(job.tickers, job.i, size)
        news_list == fetch_news(batch, S)
    IN /\ job.pc = "news"
       /\ S \subseteq {batch[k] : k \in 1..Len(batch)}
       /\ news_list # <<>>
       /\ writer[JobWriter].pc \in {"idle", "done"}
       /\ newsCalls' = newsCalls + 1
       /\ writer' = Started(JobWriter,
            [IdleWriter EXCEPT !.pc = FirstStep(news_list[1]), !.kind = "multiple",
                               !.job = news_list, !.idx = 1,
                               !.supplied = news_list[1].n,
                               !.urls = {news_list[k].doc.url : k \in 1..Len(news_list)},
                               !.overlap = NewsOverlap(JobWriter)])
       /\ job' = [job EXCEPT !.pc = "save_news"]
       /\ UNCHANGED <<news, chunks, origin, stock_data>>
       /\ UNCHANGED <<rvars, svars, news_collector, dvars>>

\* insert_multiple_stock_news has returned: "if result" decides the count
SaveNewsReturns ==
    LET size == job.STOCK_NEWS_BATCH_SIZE
        batch == Batch(job.tickers, job.i, size)
        saved == writer[JobWriter].ret \notin {None, 0}
    IN /\ job.pc = "save_news"
       /\ writer[JobWriter].pc = "done"
       /\ job' = AfterBatch([job EXCEPT
              !.stock_news_success_count = IF saved THEN @ + Len(batch) ELSE @,
              !.stock_news_failed_count = IF saved THEN @ ELSE @ + Len(batch),
              !.news_batches = @ + 1,
              !.pc = "news"],
            size, "done")
       /\ UNCHANGED stock_data
       /\ UNCHANGED <<rvars, nvars, svars, news_collector, dvars>>

JobInit ==
    /\ job = IdleJob
    /\ stock_data = {}

NextJob ==
    \/ \E tickers \in Subscriptions, data_size, news_size \in 1..MaxBatchSize :
          CollectAllStockData(tickers, data_size, news_size)
    \/ \E S \in SUBSET Tickers, vol \in [Tickers -> Volumes], downloadOk, dbOk \in BOOLEAN :
          CollectAndSave(S, vol, downloadOk, dbOk)
    \/ CollectNoNews
    \/ \E S \in SUBSET Tickers : CollectNews(S)
    \/ SaveNewsReturns
    \/ \E dim \in EmbedDims : EmbedChunks(JobWriter, dim)
    \/ EmbedRaises(JobWriter)
    \/ InsertParent(JobWriter)
    \/ InsertParentConflict(JobWriter)
    \/ InsertParentRaises(JobWriter)
    \/ InsertChunks(JobWriter)
    \/ InsertChunksRefused(JobWriter)
    \/ InsertChunksRaises(JobWriter)
    \/ CommitNews(JobWriter)
    \/ CommitNewsRaises(JobWriter)

\* ---------------------------------------------------------------- NewsDataCollector

MaxChunkSize == 3
MaxChunkOverlap == 4

\* the defaults of NEWS_CHUNK_SIZE and NEWS_CHUNK_OVERLAP
DefaultChunkSize == 1000
DefaultChunkOverlap == 200

\* an argument of the constructor: None, or an integer
Args(values) ==
    {[given |-> FALSE, value |-> 0]} \cup [given : {TRUE}, value : values]

\* an environment variable: unset, a text int() refuses, or the text of an
\* integer
Envs(values) ==
    {[set |-> FALSE, valid |-> FALSE, value |-> 0],
     [set |-> TRUE, valid |-> FALSE, value |-> 0]}
        \cup [set : {TRUE}, valid : {TRUE}, value : values]

ChunkSizes == 0..MaxChunkSize
ChunkOverlaps == (-1..MaxChunkOverlap) \cup {DefaultChunkSize}

\* int(os.getenv(name, default)) and its check: the default when the text is
\* not an integer or the integer is below the lowest allowed value
FromEnv(env, default, lowest) ==
    IF env.set /\ env.valid /\ env.value >= lowest THEN env.value ELSE default

resolved_chunk_size(chunk_size, env) ==
    IF chunk_size.given THEN chunk_size.value
    ELSE FromEnv(env, DefaultChunkSize, 1)

resolved_chunk_overlap(chunk_overlap, env) ==
    IF chunk_overlap.given THEN chunk_overlap.value
    ELSE FromEnv(env, DefaultChunkOverlap, 0)

\* the overlap is handed to the splitter as resolved
UnadjustedChunkOverlap(size, configured) == configured

\* "if resolved_chunk_overlap >= resolved_chunk_size":
\* resolved_chunk_overlap = max(0, resolved_chunk_size - 1)
AdjustedChunkOverlap(size, configured) ==
    IF configured >= size
    THEN (IF size - 1 > 0 THEN size - 1 ELSE 0)
    ELSE configured

\* RecursiveCharacterTextSplitter(chunk_size, chunk_overlap) raises ValueError
\* for a size that is not positive, a negative overlap, or an overlap larger
\* than the size
SplitterRaises(size, chunk_overlap) ==
    size <= 0 \/ chunk_overlap < 0 \/ chunk_overlap > size

NoCollector ==
    [pc |-> "unset",
     chunk_size |-> [given |-> FALSE, value |-> 0],
     chunk_overlap |-> [given |-> FALSE, value |-> 0],
     NEWS_CHUNK_SIZE |-> [set |-> FALSE, valid |-> FALSE, value |-> 0],
     NEWS_CHUNK_OVERLAP |-> [set |-> FALSE, valid |-> FALSE, value |-> 0],
     text_splitter |-> [chunk_size |-> 0, chunk_overlap |-> 0]]

\* NewsDataCollector(chunk_size, chunk_overlap) under the given environment
NewsDataCollector(chunk_size, chunk_overlap, env_size, env_overlap) ==
    LET size == resolved_chunk_size(chunk_size, env_size)
        adjusted == AdjustedChunkOverlap(size,
                       resolved_chunk_overlap(chunk_overlap, env_overlap))
    IN /\ news_collector.pc # "built"
       /\ news_collector' =
            [pc |-> IF SplitterRaises(size, adjusted) THEN "raised" ELSE "built",
             chunk_size |-> chunk_size, chunk_overlap |-> chunk_overlap,
             NEWS_CHUNK_SIZE |-> env_size, NEWS_CHUNK_OVERLAP |-> env_overlap,
             text_splitter |->
                IF SplitterRaises(size, adjusted)
                THEN NoCollector.text_splitter
                ELSE [chunk_size |-> size, chunk_overlap |-> adjusted]]
       /\ UNCHANGED <<rvars, nvars, svars, job, stock_data, dvars>>

CollectorInit == news_collector = NoCollector

NextCollector ==
    \E chunk_size \in Args(ChunkSizes), chunk_overlap \in Args(ChunkOverlaps),
       env_size \in Envs(ChunkSizes), env_overlap \in Envs(ChunkOverlaps) :
          NewsDataCollector(chunk_size, chunk_overlap, env_size, env_overlap)

\* ---------------------------------------------------------------- get_llm_service

NDepCallers == 3
MaxDepCalls == 4

DepCallers == 1..NDepCallers
\* an asyncio.Lock nobody holds
Unlocked == 0

\* the body of "if _llm_service is None" after get_edgar_tools returned:
\* LLMModule and LLMService are constructed (ok) or one of them raises, and
\* _llm_lock is released on the way out
BuildLlmService(c, ok) ==
    /\ llm_service' = IF ok THEN llm_built + 1 ELSE llm_service
    /\ llm_built' = IF ok THEN llm_built + 1 ELSE llm_built
    /\ got' = [got EXCEPT ![c] = IF ok THEN llm_built + 1 ELSE None]
    /\ dpc' = [dpc EXCEPT ![c] = IF ok THEN "done" ELSE "raised"]
    /\ llm_lock' = Unlocked

\* a caller awaits get_llm_service()
GetLlmService(c) ==
    /\ dpc[c] \in {"idle", "done", "raised"}
    /\ dep_calls < MaxDepCalls
    /\ dep_calls' = dep_calls + 1
    /\ dpc' = [dpc EXCEPT ![c] = "acquire"]
    /\ got' = [got EXCEPT ![c] = None]
    /\ UNCHANGED <<llm_service, mcp_client, mcp_tools, llm_lock, mcp_lock,
                   llm_built, mcp_built, edgar_identity>>
    /\ UNCHANGED <<rvars, nvars, svars, job, stock_data, news_collector>>

\* the lock is taken, the singleton exists and is returned
ReturnLlmService(c) ==
    /\ dpc[c] = "acquire"
    /\ llm_lock = Unlocked
    /\ llm_service # None
    /\ got' = [got EXCEPT ![c] = llm_service]
    /\ dpc' = [dpc EXCEPT ![c] = "done"]
    /\ UNCHANGED <<llm_service, mcp_client, mcp_tools, llm_lock, mcp_lock,
                   llm_built, mcp_built, dep_calls, edgar_identity>>
    /\ UNCHANGED <<rvars, nvars, svars, job, stock_data, news_collector>>

\* the lock is taken, the singleton is unset, get_edgar_tools returns the
\* cached tools
InitWithCachedTools(c, ok) ==
    /\ dpc[c] = "acquire"
    /\ llm_lock = Unlocked
    /\ llm_service = None
    /\ mcp_tools # None
    /\ BuildLlmService(c, ok)
    /\ UNCHANGED <<mcp_client, mcp_tools, mcp_lock, mcp_built, dep_calls,
                   edgar_identity>>
    /\ UNCHANGED <<rvars, nvars, svars, job, stock_data, news_collector>>

\* get_edgar_tools raises EnvironmentError: both locks are left
InitEnvironmentError(c) ==
    /\ dpc[c] = "acquire"
    /\ llm_lock = Unlocked
    /\ llm_service = None
    /\ mcp_tools = None
    /\ mcp_lock = Unlocked
    /\ ~edgar_identity
    /\ dpc' = [dpc EXCEPT ![c] = "raised"]
    /\ UNCHANGED <<llm_service, mcp_client, mcp_tools, llm_lock, mcp_lock,
                   llm_built, mcp_built, dep_calls, got, edgar_identity>>
    /\ UNCHANGED <<rvars, nvars, svars, job, stock_data, news_collector>>

\* get_edgar_tools constructs MultiServerMCPClient and awaits get_tools()
\* holding both locks
InitMcpClient(c) ==
    /\ dpc[c] = "acquire"
    /\ llm_lock = Unlocked
    /\ llm_service = None
    /\ mcp_tools = None
    /\ mcp_lock = Unlocked
    /\ edgar_identity
    /\ llm_lock' = c
    /\ mcp_lock' = c
    /\ mcp_client' = mcp_built + 1
    /\ mcp_built' = mcp_built + 1
    /\ dpc' = [dpc EXCEPT ![c] = "get_tools"]
    /\ UNCHANGED <<llm_service, mcp_tools, llm_built, dep_calls, got,
                   edgar_identity>>
    /\ UNCHANGED <<rvars, nvars, svars, job, stock_data, news_collector>>

\* get_tools() returns: the tools are cached, _mcp_lock is released and the
\* service is built
GetToolsReturns(c, ok) ==
    /\ dpc[c] = "get_tools"
    /\ mcp_tools' = mcp_client
    /\ mcp_lock' = Unlocked
    /\ BuildLlmService(c, ok)
    /\ UNCHANGED <<mcp_client, mcp_built, dep_calls, edgar_identity>>
    /\ UNCHANGED <<rvars, nvars, svars, job, stock_data, news_collector>>

\* get_tools() raises: both locks are released, _mcp_client stays assigned
GetToolsRaises(c) ==
    /\ dpc[c] = "get_tools"
    /\ mcp_lock' = Unlocked
    /\ llm_lock' = Unlocked
    /\ dpc' = [dpc EXCEPT ![c] = "raised"]
    /\ UNCHANGED <<llm_service, mcp_client, mcp_tools, llm_built, mcp_built,
                   dep_calls, got, edgar_identity>>
    /\ UNCHANGED <<rvars, nvars, svars, job, stock_data, news_collector>>

DepsIdle ==
    /\ llm_service = None
    /\ mcp_client = None
    /\ mcp_tools = None
    /\ llm_lock = Unlocked
    /\ mcp_lock = Unlocked
    /\ dpc = [c \in DepCallers |-> "idle"]
    /\ got = [c \in DepCallers |-> None]
    /\ llm_built = 0
    /\ mcp_built = 0
    /\ dep_calls = 0

NextDeps ==
    \/ \E c \in DepCallers : GetLlmService(c)
    \/ \E c \in DepCallers : ReturnLlmService(c)
    \/ \E c \in DepCallers, ok \in BOOLEAN : InitWithCachedTools(c, ok)
    \/ \E c \in DepCallers : InitEnvironmentError(c)
    \/ \E c \in DepCallers : InitMcpClient(c)
    \/ \E c \in DepCallers, ok \in BOOLEAN : GetToolsReturns(c, ok)
    \/ \E c \in DepCallers : GetToolsRaises(c)

\* ---------------------------------------------------------------- get_stock_news

MaxPerDoc == 3
MaxTopK == 2
MaxPool == 4

Queries == {0, 1}
Texts == {0, 1, 2}
TopKs == 0..MaxTopK
Pools == {2, MaxPool}

\* expected_dim of get_stock_news
expected_dim == 768

NoEmbedding == [dim |-> 0, angle |-> 0]

\* the locals of one call; outcome is how get_stock_news ended ("ok": a list
\* in ret, "none": None, "raised": an exception), out is the list that
\* get_stock_news_llm_context returns
IdleSearch ==
    [pc |-> "idle", ticker |-> "", query |-> 0, top_k |-> 0, candidate_pool |-> 0,
     query_embedding |-> NoEmbedding, subquery |-> {}, ret |-> <<>>,
     outcome |-> "", out |-> <<>>, opened |-> FALSE]

Abs(x) == IF x < 0 THEN -x ELSE x

Min(a, b) == IF a < b THEN a ELSE b

\* StockNewsChunk.embedding.cosine_distance(query_embedding), twice its value
cosine_distance(e, q) == 2 - Cos2[Abs(e.angle - q.angle) + 1]

\* the chunks of every ticker are candidates
AnyTickerChunks(t) == chunks

\* .where(StockNewsChunk.ticker == ticker)
TickerChunks(t) == {c \in chunks : c.ticker = t}

\* .order_by(distance_col.asc()).limit(candidate_pool): the row sets the
\* subquery may yield (rows at the same distance come in any order)
CandidatePools(t, q, n) ==
    {P \in SUBSET TickerChunks(t) :
        /\ Cardinality(P) = Min(n, Cardinality(TickerChunks(t)))
        /\ \A c \in P : \A x \in TickerChunks(t) \ P :
              cosine_distance(c.embedding, q) <= cosine_distance(x.embedding, q)}

RECURSIVE SumOfSimilarity(_, _)
SumOfSimilarity(P, q) ==
    IF P = {} THEN 0
    ELSE LET c == CHOOSE x \in P : TRUE
         IN (2 - cosine_distance(c.embedding, q)) + SumOfSimilarity(P \ {c}, q)

\* the score of a parent is the similarity of its nearest candidate chunk
BestSimilarity(d, P, q) ==
    LET own == {c \in P : c.parent_id = d.id}
    IN IF own = {} THEN 0
       ELSE 2 - cosine_distance(
                (CHOOSE c \in own : \A x \in own :
                    cosine_distance(c.embedding, q) <= cosine_distance(x.embedding, q)).embedding, q)

\* the score of a parent sums over all its chunks, candidates or not
ScoreOfAllChunks(d, P, q) ==
    SumOfSimilarity({c \in chunks : c.parent_id = d.id}, q)

\* score_col = func.sum(1 - subquery.c.distance) of the group of parent d,
\* twice its value
Score(d, P, q) == SumOfSimilarity({c \in P : c.parent_id = d.id}, q)

\* .join(subquery, StockNews.id == subquery.c.parent_id).group_by(StockNews.id)
Joined(P) == {d \in news : \E c \in P : c.parent_id = d.id}

\* .order_by(score_col.desc()): a may come before b
Descending(a, b) == a >= b

\* .order_by(score_col.desc()).limit(top_k): the lists the statement may yield
Rankings(P, q, k) ==
    LET m == Min(k, Cardinality(Joined(P)))
    IN {sq \in [1..m -> Joined(P)] :
          /\ \A i, j \in 1..m : i < j =>
                /\ sq[i] # sq[j]
                /\ Descending(Score(sq[i], P, q), Score(sq[j], P, q))
          /\ \A i \in 1..m : \A d \in Joined(P) \ {sq[x] : x \in 1..m} :
                Descending(Score(sq[i], P, q), Score(d, P, q))}

\* the dimension is not compared
DimensionUnchecked(e) == TRUE

\* len(query_embedding) != expected_dim raises ValueError
DimensionOk(e) == e.dim = expected_dim

\* the list of formatted strings of get_stock_news_llm_context, one per news
Context(sq) == [i \in 1..Len(sq) |-> [title |-> sq[i].url]]

\* the call ended without a list: the exception or the None reaches
\* get_stock_news_llm_context, which returns []
SearchFailed(s, how) ==
    [s EXCEPT !.pc = "done", !.outcome = how, !.ret = <<>>, !.out = <<>>]

\* get_stock_news_llm_context(ticker, query, top_k, candidate_pool) calls
\* get_stock_news, which awaits the embedding of the query; the call writes
\* nothing, so one call is followed from each store
GetStockNews(t, q, k, n) ==
    /\ search.pc = "idle"
    /\ search' = [IdleSearch EXCEPT !.pc = "embed", !.ticker = t, !.query = q,
                                    !.top_k = k, !.candidate_pool = n]
    /\ UNCHANGED <<rvars, nvars, job, stock_data, news_collector, dvars>>

\* query_embedding = await aembed_query(query)
EmbedQuery(dim) ==
    /\ search.pc = "embed"
    /\ search' = [search EXCEPT !.pc = "validate",
                                !.query_embedding = aembed(search.query, dim)]
    /\ UNCHANGED <<rvars, nvars, job, stock_data, news_collector, dvars>>

\* aembed_query raises, outside the try of get_stock_news
EmbedQueryRaises ==
    /\ search.pc = "embed"
    /\ search' = SearchFailed(search, "raised")
    /\ UNCHANGED <<rvars, nvars, job, stock_data, news_collector, dvars>>

\* raise ValueError("query_embedding must have length 768")
DimensionMismatch ==
    /\ search.pc = "validate"
    /\ ~DimensionOk(search.query_embedding)
    /\ search' = SearchFailed(search, "raised")
    /\ UNCHANGED <<rvars, nvars, job, stock_data, news_collector, dvars>>

\* async with self._get_session() as session
OpenSearchSession ==
    /\ search.pc = "validate"
    /\ DimensionOk(search.query_embedding)
    /\ search' = [search EXCEPT !.pc = "execute", !.opened = TRUE]
    /\ UNCHANGED <<rvars, nvars, job, stock_data, news_collector, dvars>>

\* session.execute(stmt) yields rows: the news are returned, and formatted
ExecuteSearch ==
    /\ search.pc = "execute"
    /\ \E P \in CandidatePools(search.ticker, search.query_embedding,
                               search.candidate_pool) :
       \E sq \in Rankings(P, search.query_embedding, search.top_k) :
          search' = [search EXCEPT !.pc = "done", !.outcome = "ok",
                                   !.subquery = P, !.ret = sq,
                                   !.out = Context(sq)]
    /\ UNCHANGED <<rvars, nvars, job, stock_data, news_collector, dvars>>

\* session.execute(stmt) raises: logged, None is returned
ExecuteSearchRaises ==
    /\ search.pc = "execute"
    /\ search' = SearchFailed(search, "none")
    /\ UNCHANGED <<rvars, nvars, job, stock_data, news_collector, dvars>>

\* the store a search runs on: two news, each with the chunks of its ticker
SortedTexts ==
    {sq \in UNION {[1..n -> Texts] : n \in 0..MaxPerDoc} :
        \A i \in 1..(Len(sq) - 1) : sq[i] <= sq[i + 1]}

ChunksOfNews(d, base, texts) ==
    {[id |-> base + i, parent_id |-> d.id, ticker |-> d.ticker,
      content |-> texts[i], embedding |-> aembed(texts[i], EmbeddingDim)] :
        i \in 1..Len(texts)}

SearchInit == search = IdleSearch

InitSearch ==
    /\ ReportInit
    /\ serverTz = 1
    /\ writer = [w \in NewsWriters |-> IdleWriter]
    /\ origin = [u \in Urls |-> NoOrigin]
    /\ newsCalls = 0
    /\ SearchInit
    /\ JobInit /\ CollectorInit /\ DepsIdle /\ edgar_identity = TRUE
    /\ \E t1, t2 \in Tickers : \E x1, x2 \in SortedTexts :
         LET d1 == [id |-> 1, url |-> "u1", ticker |-> t1]
             d2 == [id |-> 2, url |-> "u2", ticker |-> t2]
         IN /\ news = {d1, d2}
            /\ chunks = ChunksOfNews(d1, 0, x1) \cup ChunksOfNews(d2, Len(x1), x2)

NextSearch ==
    \/ \E t \in Tickers, q \in Queries, k \in TopKs, n \in Pools :
          GetStockNews(t, q, k, n)
    \/ \E dim \in EmbedDims : EmbedQuery(dim)
    \/ EmbedQueryRaises
    \/ DimensionMismatch
    \/ OpenSearchSession
    \/ ExecuteSearch
    \/ ExecuteSearchRaises

vars == <<rvars, nvars, svars, job, stock_data, news_collector, dvars>>

Init == ReportInit /\ NewsInit /\ SearchInit /\ JobInit /\ CollectorInit /\ DepsIdle /\ edgar_identity = TRUE

\* the news store does not read the clock: the server runs in the business timezone
InitNews == Init /\ serverTz = 1

Next ==
    \/ \E p \in Callers, t \in Tickers : Call(p, t)
    \/ \E p \in Callers : CheckCacheHit(p)
    \/ \E p \in Callers : CheckCacheMiss(p)
    \/ \E p \in Callers : GenerateStart(p)
    \/ \E p \in Callers, body \in Bodies : GenerateReturn(p, body)
    \/ \E p \in Callers : GenerateRaises(p)
    \/ \E p \in Callers : PersistExecute(p)
    \/ \E p \in Callers : PersistExecuteRaises(p)
    \/ \E p \in Callers : PersistCommit(p)
    \/ \E p \in Callers : PersistCommitRaises(p)
    \/ Tick

Spec == Init /\ [][Next]_vars

SpecCache == Init /\ [][NextCache]_vars

\* the steps the event loop runs once their await completes: the database
\* answers a statement in the end, the agent may never answer
OrchestratorStep(p) ==
    \/ CheckCacheHit(p) \/ CheckCacheMiss(p) \/ GenerateStart(p)
    \/ PersistExecute(p) \/ PersistExecuteRaises(p)
    \/ PersistCommit(p) \/ PersistCommitRaises(p)

SpecFair == Init /\ [][Next]_vars /\ \A p \in Callers : WF_vars(OrchestratorStep(p))

SpecNews == InitNews /\ [][NextNews]_vars

SpecSearch == InitSearch /\ [][NextSearch]_vars

\* the job runs on an empty store or on the store an earlier run left
InitJob ==
    /\ ReportInit
    /\ serverTz = 1
    /\ SearchInit /\ JobInit /\ CollectorInit /\ DepsIdle /\ edgar_identity = TRUE
    /\ writer = [w \in NewsWriters |-> IdleWriter]
    /\ origin = [u \in Urls |-> NoOrigin]
    /\ newsCalls = 0
    /\ \/ news = {} /\ chunks = {}
       \/ /\ news = {[id |-> 1, url |-> "u1", ticker |-> "AAPL"]}
          /\ chunks = {[id |-> i, parent_id |-> 1, ticker |-> "AAPL", content |-> i,
                        embedding |-> aembed(i, EmbeddingDim)] : i \in 1..MaxChunks}

SpecJob == InitJob /\ [][NextJob]_vars

SpecCollector == InitNews /\ [][NextCollector]_vars

\* EDGAR_IDENTITY is configured or not
InitDeps ==
    /\ ReportInit /\ serverTz = 1
    /\ NewsInit /\ SearchInit /\ JobInit /\ CollectorInit
    /\ DepsIdle /\ edgar_identity \in BOOLEAN

SpecDeps == InitDeps /\ [][NextDeps]_vars

\* ---------------------------------------------------------------- claims on the orchestrator

\* two calls that run at the same time for one ticker and one business day,
\* both begun without a cached report for that day
Concurrent(p, q) ==
    /\ p # q
    /\ q \in overlap[p]
    /\ pc[p] # "idle" /\ pc[q] # "idle"
    /\ ticker[p] = ticker[q]
    /\ callBiz[p] = callBiz[q]
    /\ missAtCall[p] /\ missAtCall[q]

\* C1: concurrent calls for one ticker on one business day, starting without
\* a cached report, invoke the external generation at most once, and all of
\* them receive the same report body.
C1_SingleGeneration ==
    \A p, q \in Callers :
        Concurrent(p, q) =>
            /\ ~(Generated(p) /\ Generated(q))
            /\ (pc[p] = "done" /\ pc[q] = "done"
                /\ result[p] # RAISED /\ result[q] # RAISED)
               => result[p] = result[q]

\* C2: the second of two sequential calls for one ticker within one business
\* day returns the body the first call stored and invokes no generation.
SecondCallSameDay(p) ==
    /\ pc[p] = "done"
    /\ prev[p].stored
    /\ prev[p].t = ticker[p]
    /\ prev[p].biz = callBiz[p]
    /\ ~lookupFailed[p]
    /\ get_today_in_business_timezone(now) = callBiz[p]

C2_SecondCallCached ==
    \A p \in Callers :
        SecondCallSameDay(p) => (~Generated(p) /\ result[p] = prev[p].result)

\* C3: a call that finds no cached report for (t, today) makes exactly one
\* generation call, creates exactly one row keyed (t, today) and returns the
\* generated text.
GenerationCalls(p) ==
    Cardinality({i \in 1..Len(steps[p]) : steps[p][i] = "generate"})

GeneratedAndStored(p) ==
    /\ pc[p] = "done"
    /\ missAtCall[p]
    /\ Generated(p)
    /\ result[p] # RAISED
    /\ insert_result[p] # None

C3_GenerateOnMiss ==
    \A p \in Callers :
        GeneratedAndStored(p) =>
            /\ GenerationCalls(p) = 1
            /\ Cardinality(MatchingReports(ticker[p], callBiz[p])) = 1
            /\ result[p] = report_content[p]

\* C10: a call that reaches generation has run, in this order, the cache
\* check, the acquisition of the ticker's lock and the re-check under the
\* lock before the generation, and the persist after it.
IsPrefix(a, b) == Len(a) <= Len(b) /\ \A i \in 1..Len(a) : a[i] = b[i]

OrderedSteps == <<"check", "lock", "recheck", "generate", "persist">>

C10_StepOrder ==
    \A p \in Callers :
        Generated(p) => IsPrefix(steps[p], OrderedSteps)

\* ---------------------------------------------------------------- claims on the report cache

ReportKeys == Tickers \X Dates

\* C4: two upserts of one (ticker, date) with different bodies leave exactly
\* one row of that key, and the row holds the second body.
UpsertedTwice(k) ==
    Len(writeLog[k]) = 2 /\ writeLog[k][1] # writeLog[k][2]

C4_SecondBodyWins ==
    \A k \in ReportKeys :
        UpsertedTwice(k) =>
            /\ Cardinality(MatchingReports(k[1], k[2])) = 1
            /\ \A r \in MatchingReports(k[1], k[2]) : r.report = writeLog[k][2]

C4_Witness ==
    \E k \in ReportKeys :
        UpsertedTwice(k) /\ \E r \in MatchingReports(k[1], k[2]) : r.report = writeLog[k][2]

\* C5: under every interleaving of concurrent upserts of one (ticker, date)
\* no state holds two rows of that key, and once all writers have returned
\* the row holds the body of one of the writers.
Quiescent == \A p \in Callers : pc[p] \in {"idle", "done"}

BodiesWritten(k) == {writeLog[k][i] : i \in 1..Len(writeLog[k])}

C5_OneRowPerKey ==
    /\ \A k \in ReportKeys : Cardinality(MatchingReports(k[1], k[2])) <= 1
    /\ Quiescent =>
         \A r \in reports : r.report \in BodiesWritten(<<r.ticker, r.created_at>>)

C5_Witness ==
    \E p, q \in Callers :
        /\ p # q /\ q \in overlap[p]
        /\ pc[p] = "done" /\ pc[q] = "done"
        /\ insert_result[p] = 1 /\ insert_result[q] = 1
        /\ Len(stock_report[p]) = 1 /\ Len(stock_report[q]) = 1
        /\ SameKey(stock_report[p][1], stock_report[q][1])
        /\ stock_report[p][1].report # stock_report[q][1].report
        /\ Cardinality(MatchingReports(stock_report[p][1].ticker,
                                       stock_report[p][1].created_at)) = 1

\* ---------------------------------------------------------------- claims on the news store

ParentRows(u) == {r \in news : r.url = u}

ChunkContents(u) ==
    {c.content : c \in {c \in chunks : \E r \in ParentRows(u) : c.parent_id = r.id}}

ChunkCount(u) ==
    Cardinality({c \in chunks : \E r \in ParentRows(u) : c.parent_id = r.id})

\* what the call that inserted the parent of u stored as chunks of u
StoredChunks(u) ==
    IF origin[u].chunkRaised THEN {} ELSE 1..origin[u].n

SecondInsert(w) ==
    /\ writer[w].pc = "done"
    /\ writer[w].kind = "single"
    /\ writer[w].dupAtCall

\* C6 (as stated): a second insert_stock_news of a url leaves one parent row
\* of the url and the chunk set of the first insert, reports 0 affected rows
\* and is not an error.
C6_DuplicateReturnsZero ==
    \A w \in NewsWriters : \A u \in writer[w].urls :
        SecondInsert(w) =>
            /\ Cardinality(ParentRows(u)) = 1
            /\ ChunkContents(u) = StoredChunks(u)
            /\ ChunkCount(u) = Cardinality(StoredChunks(u))
            /\ writer[w].ret = 0

\* C6 (amended): a second insert_stock_news of a url leaves one parent row of
\* the url and the chunk set of the first insert; it reports 0 affected rows,
\* unless its embedding call or its statement raises, and then it returns None.
C6_DuplicateIsNoOp ==
    \A w \in NewsWriters : \A u \in writer[w].urls :
        SecondInsert(w) =>
            /\ Cardinality(ParentRows(u)) = 1
            /\ ChunkContents(u) = StoredChunks(u)
            /\ ChunkCount(u) = Cardinality(StoredChunks(u))
            /\ writer[w].ret = IF writer[w].faulted THEN None ELSE 0

C6_Witness ==
    \E w \in NewsWriters : \E u \in writer[w].urls :
        /\ SecondInsert(w)
        /\ ~writer[w].faulted
        /\ writer[w].ret = 0
        /\ ChunkCount(u) = MaxChunks

\* C7: after concurrent inserts of one url the store holds exactly one parent
\* row of the url, and the chunks of the url are exactly the chunks of the
\* winning writer.
NewsQuiescent == \A w \in NewsWriters : writer[w].pc \in {"idle", "done"}

ConcurrentInserts(u) ==
    \E w, x \in NewsWriters :
        /\ w # x /\ x \in writer[w].overlap
        /\ writer[w].pc = "done" /\ writer[x].pc = "done"
        /\ u \in writer[w].urls /\ u \in writer[x].urls

C7_SingleWinner ==
    \A u \in Urls :
        (NewsQuiescent /\ ConcurrentInserts(u) /\ ParentRows(u) # {}) =>
            /\ Cardinality(ParentRows(u)) = 1
            /\ ChunkContents(u) = 1..origin[u].n
            /\ ChunkCount(u) = origin[u].n

\* C8: no parent row is left without chunks when chunks were supplied and the
\* embedding succeeded, and no parent row exists when the embedding failed.
C8_NoParentWithoutChunks ==
    \A u \in Urls :
        (ParentRows(u) # {} /\ origin[u].n > 0) =>
            /\ origin[u].dim # 0
            /\ ChunkCount(u) > 0

\* C9: within one insert the embedding call completes before the parent
\* insert is issued, and the parent insert completes before the chunk insert
\* is issued.
InsertOrder(n) == IF n > 0 THEN <<"embed", "parent", "chunks">> ELSE <<"parent">>

C9_InsertOrder ==
    \A w \in NewsWriters :
        writer[w].pc \notin {"idle", "done"} =>
            IsPrefix(writer[w].trace, InsertOrder(writer[w].supplied))

C9_Witness ==
    \E w \in NewsWriters :
        /\ writer[w].pc = "commit"
        /\ writer[w].supplied > 0
        /\ writer[w].trace = <<"embed", "parent", "chunks">>
        /\ writer[w].tchunks # {}

\* ---------------------------------------------------------------- claims on failures of the orchestrator

PersistFailed(p) ==
    /\ pc[p] = "done"
    /\ Generated(p)
    /\ report_content[p] # NoBody
    /\ insert_result[p] = None

\* C12: when the generation succeeded and insert_stock_report returns None,
\* generate_report_with_ticker returns the generated body and does not raise.
C12_ReturnsBodyWhenSaveFails ==
    \A p \in Callers :
        PersistFailed(p) =>
            /\ result[p] = report_content[p]
            /\ result[p] # RAISED

C12_Witness ==
    \E p \in Callers :
        /\ PersistFailed(p)
        /\ result[p] \in Bodies
        /\ MatchingReports(ticker[p], stock_report[p][1].created_at) = {}

\* C13: a call whose generation was invoked terminates, also when the agent
\* never answers: a timeout ends the wait and the caller gets the error.
C13_GenerationTerminates ==
    \A p \in Callers : (pc[p] = "generating") ~> (pc[p] = "done")

\* C14: the date used for the cache lookup and the date that keys the
\* persisted row are the date in the business timezone at the instant they
\* are taken, whatever the timezone of the server.
LookupUsesBusinessDate ==
    \A p \in Callers : Active(p) => today[p] = callBiz[p]

RowKeyedByBusinessDate ==
    \A p \in Callers :
        (pc[p] = "generating" /\ pc'[p] = "upsert_exec") =>
            stock_report'[p][1].created_at = get_today_in_business_timezone(now)

C14_BusinessDate ==
    /\ []LookupUsesBusinessDate
    /\ [][RowKeyedByBusinessDate]_vars

\* C15: while the generation call is in flight the caller holds no open
\* session and no open transaction: the session of the cache check is closed
\* before the generation starts, the session of the save opens after it.
C15_NoSessionWhileGenerating ==
    \A p \in Callers :
        pc[p] \in {"generate", "generating"} =>
            /\ ~session[p]
            /\ txn[p] = <<>>

C15_Witness ==
    \E p \in Callers :
        /\ pc[p] = "generating"
        /\ steps[p] = <<"check", "generate">>
        /\ ~session[p]
        /\ \E q \in Callers \ {p} : session[q]

\* ---------------------------------------------------------------- claims on the search

Found == search.pc = "done" /\ search.outcome = "ok"

ScoreOf(d) == Score(d, search.subquery, search.query_embedding)

\* C16: a search returns at most top_k news, each of the ticker asked for,
\* in the order of non-increasing aggregate score.
C16_TopKOfTicker ==
    Found =>
        /\ Len(search.ret) <= search.top_k
        /\ \A i \in 1..Len(search.ret) : search.ret[i].ticker = search.ticker
        /\ \A i, j \in 1..Len(search.ret) :
              i < j => ScoreOf(search.ret[i]) >= ScoreOf(search.ret[j])

C16_Witness ==
    /\ Found
    /\ Len(search.ret) = 1
    /\ search.top_k = 1
    /\ Cardinality(Joined(search.subquery)) = 2
    /\ \E d \in Joined(search.subquery) : ScoreOf(search.ret[1]) > ScoreOf(d)

\* wherever b is returned, a is returned at an earlier position
RankedBefore(a, b) ==
    \A j \in 1..Len(search.ret) :
        search.ret[j] = b => \E i \in 1..(j - 1) : search.ret[i] = a

ChunksOfParent(d) == {c \in chunks : c.parent_id = d.id}

\* news a has three chunks and news b one, all four among the candidates at
\* one distance d with 1 - d > 0
BreadthCase(a, b) ==
    /\ Found
    /\ a.ticker = search.ticker /\ b.ticker = search.ticker
    /\ Cardinality(ChunksOfParent(a)) = 3
    /\ Cardinality(ChunksOfParent(b)) = 1
    /\ ChunksOfParent(a) \cup ChunksOfParent(b) \subseteq search.subquery
    /\ \E dist \in 0..1 :
          \A c \in ChunksOfParent(a) \cup ChunksOfParent(b) :
              cosine_distance(c.embedding, search.query_embedding) = dist

\* C17: a news with three relevant chunks has a strictly greater aggregate
\* score than a news with one equally relevant chunk and is ranked before it.
C17_BreadthOverSingleMatch ==
    \A a, b \in news :
        BreadthCase(a, b) =>
            /\ ScoreOf(a) > ScoreOf(b)
            /\ RankedBefore(a, b)

C17_Witness ==
    \E a, b \in news :
        /\ BreadthCase(a, b)
        /\ search.top_k = 1
        /\ search.ret = <<a>>
        /\ cosine_distance((CHOOSE c \in ChunksOfParent(b) : TRUE).embedding,
                           search.query_embedding) = 1

\* C18: a query embedding of another dimension than the store's makes
\* get_stock_news raise before it opens a session or executes a statement.
WrongDimension ==
    /\ search.pc = "done"
    /\ search.query_embedding # NoEmbedding
    /\ search.query_embedding.dim # EmbeddingDim

C18_MismatchBeforeStorage ==
    WrongDimension =>
        /\ search.outcome = "raised"
        /\ ~search.opened
        /\ search.subquery = {}

C18_Witness ==
    /\ WrongDimension
    /\ search.outcome = "raised"
    /\ TickerChunks(search.ticker) # {}

\* a search that succeeded and found no news
EmptyContext == Context(<<>>)

\* C19: a failed search gives the caller of get_stock_news and of
\* get_stock_news_llm_context an outcome that differs from the outcome of a
\* search that found no news.
C19_FailureIsNotEmpty ==
    (search.pc = "done" /\ search.outcome \in {"raised", "none"}) =>
        /\ <<search.outcome, search.ret>> # <<"ok", <<>>>>
        /\ search.out # EmptyContext

\* ---------------------------------------------------------------- claims on insert_multiple_stock_news

BatchCommitted(w) ==
    /\ writer[w].kind = "multiple"
    /\ writer[w].pc = "commit"
    /\ writer'[w].pc = "done"
    /\ writer'[w].ret # None

\* C20: when one item of insert_multiple_stock_news fails, the items whose
\* statements succeeded are committed and the failing item leaves no row.
ItemsAreIndependent ==
    \A w \in NewsWriters :
        BatchCommitted(w) =>
            /\ \A id \in writer[w].okIds : \E r \in news' : r.id = id
            /\ \A id \in writer[w].leftIds : ~ \E r \in news' : r.id = id

C20_ItemsAreIndependent == [][ItemsAreIndependent]_vars

\* ---------------------------------------------------------------- claims on the cache check and the row key

\* what get_stock_report_with_date returned to the cache check of caller p
LookupOutcome(p) ==
    get_stock_report_with_date(ticker[p], today[p], ~lookupFailed[p])

\* C21: the value get_stock_report_with_date gives for "no report" differs
\* from what it gives when the lookup failed, so the cache check can tell
\* a miss from a storage failure.
C21_AbsentIsNotFailure ==
    \A p \in Callers :
        (pc[p] = "generate" /\ lookupFailed[p]) => LookupOutcome(p) # Absent

WrittenKeys(p) == KeysOf(txn[p])

Commits(p) == pc[p] = "upsert_commit" /\ pc'[p] = "done" /\ reports' # reports

\* C24: a write of the orchestrator for a ticker on business day d changes
\* the row keyed (ticker, d) only (d taken at the call or at the write):
\* rows of other keys keep their body, no row of an earlier day is changed.
FrameOfWrite ==
    \A p \in Callers :
        Commits(p) =>
            /\ \A r \in reports :
                  <<r.ticker, r.created_at>> \notin WrittenKeys(p) => r \in reports'
            /\ \A k \in WrittenKeys(p) :
                  /\ k[1] = ticker[p]
                  /\ k[2] \in {callBiz[p], get_today_in_business_timezone(now)}

C24_WritesOnlyTodaysRow == [][FrameOfWrite]_vars

GenerationRaised(p) ==
    /\ pc[p] = "done"
    /\ Generated(p)
    /\ report_content[p] = NoBody

\* C25: when the generation raises, generate_report_with_ticker raises too
\* (it returns no body) and has written nothing to the report cache.
C25_GenerationErrorPropagates ==
    \A p \in Callers :
        GenerationRaised(p) =>
            /\ result[p] = RAISED
            /\ stock_report[p] = <<>>
            /\ txn[p] = <<>>
            /\ ~session[p]
            /\ \A i \in 1..Len(steps[p]) : steps[p][i] # "persist"

C25_Witness ==
    \E p \in Callers :
        /\ GenerationRaised(p)
        /\ result[p] = RAISED
        /\ missAtCall[p]
        /\ \A r \in reports : r.ticker # ticker[p]

\* C29: the date that keys the persisted row is the date the same request
\* used for its cache check, also when midnight passes during the generation.
C29_OneDatePerRequest ==
    \A p \in Callers :
        (pc[p] \in {"upsert_exec", "upsert_commit"} /\ Generated(p)) =>
            stock_report[p][1].created_at = today[p]

\* ---------------------------------------------------------------- the reference ranking

DistanceTo(c) == cosine_distance(c.embedding, search.query_embedding)

OfTicker == {c \in chunks : c.ticker = search.ticker}

\* P holds the candidate_pool chunks of the ticker nearest to the query
IsNearestPool(P) ==
    /\ P \subseteq OfTicker
    /\ Cardinality(P) = Min(search.candidate_pool, Cardinality(OfTicker))
    /\ ~ \E c \in P : \E x \in OfTicker \ P : DistanceTo(x) < DistanceTo(c)

RECURSIVE SumOfDistance(_)
SumOfDistance(S) ==
    IF S = {} THEN 0
    ELSE LET c == CHOOSE x \in S : TRUE
         IN DistanceTo(c) + SumOfDistance(S \ {c})

\* the sum of (1 - distance) over the candidates of parent d only, twice
ReferenceScore(d, P) ==
    LET own == {c \in P : c.parent_id = d.id}
    IN 2 * Cardinality(own) - SumOfDistance(own)

ParentsIn(P) == {d \in news : \E c \in P : c.parent_id = d.id}

IsReferenceRanking(sq, P, k) ==
    /\ Len(sq) = Min(k, Cardinality(ParentsIn(P)))
    /\ \A i \in 1..Len(sq) : sq[i] \in ParentsIn(P)
    /\ \A i, j \in 1..Len(sq) : i < j =>
          /\ sq[i] # sq[j]
          /\ ReferenceScore(sq[i], P) >= ReferenceScore(sq[j], P)
    /\ \A d \in ParentsIn(P) :
          (\A i \in 1..Len(sq) : sq[i] # d) =>
              \A i \in 1..Len(sq) : ReferenceScore(sq[i], P) >= ReferenceScore(d, P)

\* C26: get_stock_news returns a reference ranking: the nearest
\* candidate_pool chunks of the ticker, grouped by parent, scored by the sum
\* of (1 - distance) over the candidates only, the top_k parents by
\* descending score, each at most once.
C26_ReferenceRanking ==
    Found =>
        /\ IsNearestPool(search.subquery)
        /\ IsReferenceRanking(search.ret, search.subquery, search.top_k)

C26_Witness ==
    /\ Found
    /\ Len(search.ret) = 2
    /\ ReferenceScore(search.ret[1], search.subquery)
          > ReferenceScore(search.ret[2], search.subquery)
    /\ \E c \in OfTicker \ search.subquery :
          /\ c.parent_id = search.ret[2].id
          /\ DistanceTo(c) = 1

\* ---------------------------------------------------------------- rollback and parents

\* insert_stock_news of writer w ends with None after its news row was
\* written in the transaction
FailsAfterParent(w) ==
    /\ writer[w].kind = "single"
    /\ writer[w].pc \in {"chunks", "commit"}
    /\ writer[w].tnews # {}
    /\ writer'[w].pc = "done"
    /\ writer'[w].ret = None

RolledBack(w) ==
    LET doc == writer[w].job[1].doc
        ids == {d.id : d \in writer[w].tnews}
    IN /\ \A d \in news' : d.url # doc.url /\ d.id \notin ids
       /\ \A c \in chunks' : c.parent_id \notin ids
       /\ writer'[w].tnews = {} /\ writer'[w].tchunks = {}
       /\ \A x \in NewsWriters : \A d \in writer'[x].tnews : d.url # doc.url
       /\ InsertedNewsId(news', news', doc) # NoId

\* C27: when insert_stock_news fails after its news row was inserted, the
\* call returns None, neither the news row nor a chunk of it is stored or
\* left in an open transaction, and the url is free for a fresh insert.
C27_FailedInsertRollsBack ==
    [][\A w \in NewsWriters : FailsAfterParent(w) => RolledBack(w)]_vars

\* a single insert whose chunk insert raised has returned None, and the url
\* it had inserted is not stored
C27_Witness ==
    \E w \in NewsWriters : \E u \in Urls :
        /\ writer[w].pc = "done" /\ writer[w].kind = "single"
        /\ writer[w].ret = None
        /\ writer[w].urls = {u}
        /\ origin[u].w = w /\ origin[u].chunkRaised
        /\ ParentRows(u) = {}

ParentsOf(c) == {d \in news : d.id = c.parent_id}

OtherTickersSaved ==
    \A r \in job.collected :
        r.volume < Int32Limit => \E s \in stock_data : s.ticker = r.ticker

EveryBatchAttempted ==
    job.pc = "done" /\ job.tickers # <<>> =>
        /\ job.price_batches = total_batches(job.tickers, job.STOCK_DATA_BATCH_SIZE)
        /\ job.news_batches = total_batches(job.tickers, job.STOCK_NEWS_BATCH_SIZE)

\* a news batch that is committed stores the news of every ticker whose own
\* statements succeeded
OtherNewsSaved ==
    (job.pc = "save_news" /\ BatchCommitted(JobWriter)) =>
        \A id \in writer[JobWriter].okIds : \E r \in news' : r.id = id

\* C22: in collect_all_stock_data a failure on one ticker does not abort the
\* other tickers of its batch nor a later batch: the prices and the news of
\* every other ticker are saved, and every batch is attempted.
C22_TickersAreIndependent ==
    /\ [](OtherTickersSaved /\ EveryBatchAttempted)
    /\ [][OtherNewsSaved]_vars

\* ---------------------------------------------------------------- claims on the chunker configuration

ConfiguredChunkSize ==
    resolved_chunk_size(news_collector.chunk_size, news_collector.NEWS_CHUNK_SIZE)

ConfiguredChunkOverlap ==
    resolved_chunk_overlap(news_collector.chunk_overlap,
                           news_collector.NEWS_CHUNK_OVERLAP)

OverlapTooLarge ==
    /\ news_collector.pc # "unset"
    /\ ConfiguredChunkSize >= 1
    /\ ConfiguredChunkOverlap >= ConfiguredChunkSize

\* C23: for a chunk size of at least 1 and an overlap not smaller than it,
\* the constructor does not raise and builds the splitter with the overlap
\* chunk size - 1, so 0 <= overlap < chunk size.
C23_OverlapClamped ==
    OverlapTooLarge =>
        /\ news_collector.pc = "built"
        /\ news_collector.text_splitter.chunk_size = ConfiguredChunkSize
        /\ news_collector.text_splitter.chunk_overlap = ConfiguredChunkSize - 1
        /\ 0 <= news_collector.text_splitter.chunk_overlap
        /\ news_collector.text_splitter.chunk_overlap
              < news_collector.text_splitter.chunk_size

C23_Witness ==
    /\ OverlapTooLarge
    /\ news_collector.pc = "built"
    /\ news_collector.chunk_overlap.given
    /\ news_collector.chunk_overlap.value > ConfiguredChunkSize
    /\ news_collector.text_splitter.chunk_overlap = 1

\* ---------------------------------------------------------------- claims on get_llm_service

Initializing == {c \in DepCallers : dpc[c] = "get_tools"}

OneInstance ==
    /\ llm_built <= 1
    /\ mcp_built <= 1
    /\ \A c \in DepCallers :
          dpc[c] = "done" => got[c] # None /\ got[c] = llm_service

LocksReleased ==
    /\ \A c \in DepCallers :
          dpc[c] \in {"done", "raised"} => llm_lock # c /\ mcp_lock # c
    /\ Initializing = {} => llm_lock = Unlocked /\ mcp_lock = Unlocked

UnsetAfterFailure ==
    llm_built = 0 => llm_service = None

\* C30: at most one LLMService and at most one MCP client and tool set are
\* ever constructed and every caller gets that LLMService; when the
\* initialization raises, both locks are released and the singleton stays
\* unset, so a later call initializes again.
C30_SingleInstance ==
    OneInstance /\ LocksReleased /\ UnsetAfterFailure

====
